---- MODULE Spec2Model ----
(***************************************************************************)
(* A model of words/syllabify.py: normalize_word, split_into_aksharas and  *)
(* process_file.  A string is a sequence of Unicode code points (naturals),*)
(* so that concatenation, indexing and comparison are those of Python's    *)
(* str.  Python indices are 0-based: At(s, k) is s[k].                     *)
(***************************************************************************)
EXTENDS Integers, Sequences, FiniteSets

\* ------------------------------------------------------------------------
\* Bounds of the model
\* ------------------------------------------------------------------------

\* longest word handed to split_into_aksharas in SpecSplit
MaxLen == 6

\* most lines of an input file in Spec
MaxLines == 3

\* longest input path in SpecPaths
MaxPathLen == 5

\* longest line, its line end apart, in SpecNormalize
MaxRawLen == 4

\* most lines of the file parse_file_strict reads in SpecParse
MaxTexLines == 4

\* ------------------------------------------------------------------------
\* Unicode character categories (syllabify.py lines 12-23)
\* ------------------------------------------------------------------------

VIRAMA == 2381

INDEPENDENT_VOWELS == 2308 .. 2324

CONSONANTS == 2325 .. 2361

VOWEL_SIGNS == 2366 .. 2380

DIACRITICS == {2306, 2307, 2305}

ZWJ == 8205

ZWNJ == 8204

\* Code points the inputs are drawn from, one name per code point.
LETTER_A == 2309

LETTER_KA == 2325

SIGN_AA == 2366

ANUSVARA == 2306

SPACE == 32

LETTER_NA == 2344

LETTER_QA == 2392

\* ------------------------------------------------------------------------
\* Strings
\* ------------------------------------------------------------------------

At(s, k) == s[k + 1]

\* all strings over alphabet A of length at most n
StringsUpTo(A, n) == UNION {[1 .. m -> A] : m \in 0 .. n}

RECURSIVE Concat(_)
\* "".join(ss)
Concat(ss) == IF ss = <<>> THEN <<>> ELSE Head(ss) \o Concat(Tail(ss))

\* ------------------------------------------------------------------------
\* split_into_aksharas: the absorption steps of one outer iteration.  Each
\* takes and returns the pair of locals (ak, i).
\* ------------------------------------------------------------------------

RECURSIVE AbsorbDiacritics(_, _, _)
\* while i < n and word[i] in DIACRITICS: ak += word[i]; i += 1
AbsorbDiacritics(w, ak, k) ==
    IF k < Len(w) /\ At(w, k) \in DIACRITICS
    THEN AbsorbDiacritics(w, Append(ak, At(w, k)), k + 1)
    ELSE [ak |-> ak, i |-> k]

\* a cluster loop that keeps the consonant of each pair and loses its virama
RECURSIVE AbsorbClusterDropsVirama(_, _, _)
AbsorbClusterDropsVirama(w, ak, k) ==
    IF k + 1 < Len(w) /\ At(w, k) = VIRAMA /\ At(w, k + 1) \in CONSONANTS
    THEN AbsorbClusterDropsVirama(w, Append(ak, At(w, k + 1)), k + 2)
    ELSE [ak |-> ak, i |-> k]

\* a cluster step written with "if" in place of "while"
AbsorbClusterOnce(w, ak, k) ==
    IF k + 1 < Len(w) /\ At(w, k) = VIRAMA /\ At(w, k + 1) \in CONSONANTS
    THEN [ak |-> ak \o <<At(w, k), At(w, k + 1)>>, i |-> k + 2]
    ELSE [ak |-> ak, i |-> k]

RECURSIVE AbsorbCluster(_, _, _)
\* while i + 1 < n and word[i] == VIRAMA and word[i + 1] in CONSONANTS:
\*     ak += word[i] + word[i + 1]; i += 2
AbsorbCluster(w, ak, k) ==
    IF k + 1 < Len(w) /\ At(w, k) = VIRAMA /\ At(w, k + 1) \in CONSONANTS
    THEN AbsorbCluster(w, ak \o <<At(w, k), At(w, k + 1)>>, k + 2)
    ELSE [ak |-> ak, i |-> k]

\* if i < n and word[i] == VIRAMA: ak += word[i]; i += 1
AbsorbTerminalVirama(w, ak, k) ==
    IF k < Len(w) /\ At(w, k) = VIRAMA
    THEN [ak |-> Append(ak, At(w, k)), i |-> k + 1]
    ELSE [ak |-> ak, i |-> k]

\* if i < n and word[i] in VOWEL_SIGNS and word[i] != VIRAMA: ak += word[i]; i += 1
AbsorbVowelSign(w, ak, k) ==
    IF k < Len(w) /\ At(w, k) \in VOWEL_SIGNS /\ At(w, k) # VIRAMA
    THEN [ak |-> Append(ak, At(w, k)), i |-> k + 1]
    ELSE [ak |-> ak, i |-> k]

\* an independent-vowel branch that also takes a vowel sign
VowelAksharaWithSign(w, k) ==
    LET c == AbsorbVowelSign(w, <<At(w, k)>>, k + 1)
    IN  AbsorbDiacritics(w, c.ak, c.i)

\* the independent-vowel branch: ak = ch; i += 1; absorb diacritics
VowelAkshara(w, k) == AbsorbDiacritics(w, <<At(w, k)>>, k + 1)

\* the consonant branch: ak = ch; i += 1; cluster, terminal virama,
\* vowel sign, diacritics, in this order
ConsonantAkshara(w, k) ==
    LET a == AbsorbCluster(w, <<At(w, k)>>, k + 1)
        b == AbsorbTerminalVirama(w, a.ak, a.i)
        c == AbsorbVowelSign(w, b.ak, b.i)
    IN  AbsorbDiacritics(w, c.ak, c.i)

\* a fallback that forgets i += 1
FallbackNoAdvance(w, k) == [ak |-> <<At(w, k)>>, i |-> k]

\* a fallback that lets the unexpected character carry diacritics
FallbackWithDiacritics(w, k) == AbsorbDiacritics(w, <<At(w, k)>>, k + 1)

\* the fallback: aksharas.append(ch); i += 1
FallbackAkshara(w, k) == [ak |-> <<At(w, k)>>, i |-> k + 1]

RECURSIVE Scan(_, _, _)
\* the outer while loop, from cursor k with the list acc
Scan(w, k, acc) ==
    IF ~(k < Len(w)) THEN acc
    ELSE LET r == IF At(w, k) \in INDEPENDENT_VOWELS THEN VowelAkshara(w, k)
                  ELSE IF At(w, k) \in CONSONANTS THEN ConsonantAkshara(w, k)
                  ELSE FallbackAkshara(w, k)
         IN  Scan(w, r.i, Append(acc, r.ak))

\* split_into_aksharas(word) as a function of its argument
split_into_aksharas(w) == Scan(w, 0, <<>>)

\* ------------------------------------------------------------------------
\* normalize_word
\* ------------------------------------------------------------------------

\* the code points str.strip() removes: those for which str.isspace() holds
WHITESPACE ==
    (9 .. 13) \cup (28 .. 32) \cup {133, 160, 5760} \cup (8192 .. 8202)
        \cup {8232, 8233, 8239, 8287, 12288}

RECURSIVE LStrip(_)
LStrip(s) == IF s # <<>> /\ Head(s) \in WHITESPACE THEN LStrip(Tail(s)) ELSE s

RECURSIVE RStrip(_)
RStrip(s) ==
    IF s # <<>> /\ s[Len(s)] \in WHITESPACE
    THEN RStrip(SubSeq(s, 1, Len(s) - 1))
    ELSE s

\* word.strip()
Strip(s) == RStrip(LStrip(s))

\* Unicode data of the Devanagari block, ASCII and the joiners: the
\* canonical decompositions, the canonical combining classes and the
\* primary composites (U+0958..U+095F are composition exclusions).
NUKTA == 2364

CanonicalDecomposition(c) ==
    CASE c = 2345 -> <<2344, NUKTA>>
      [] c = 2353 -> <<2352, NUKTA>>
      [] c = 2356 -> <<2355, NUKTA>>
      [] c = 2392 -> <<2325, NUKTA>>
      [] c = 2393 -> <<2326, NUKTA>>
      [] c = 2394 -> <<2327, NUKTA>>
      [] c = 2395 -> <<2332, NUKTA>>
      [] c = 2396 -> <<2337, NUKTA>>
      [] c = 2397 -> <<2338, NUKTA>>
      [] c = 2398 -> <<2347, NUKTA>>
      [] c = 2399 -> <<2351, NUKTA>>
      [] OTHER -> <<c>>

CombiningClass(c) ==
    CASE c = NUKTA -> 7
      [] c = VIRAMA -> 9
      [] c \in {2385, 2387, 2388} -> 230
      [] c = 2386 -> 220
      [] OTHER -> 0

\* the primary composite of a starter and a mark, 0 when there is none
PrimaryComposite(a, b) ==
    CASE a = 2344 /\ b = NUKTA -> 2345
      [] a = 2352 /\ b = NUKTA -> 2353
      [] a = 2355 /\ b = NUKTA -> 2356
      [] OTHER -> 0

RECURSIVE Decompose(_)
Decompose(s) ==
    IF s = <<>> THEN <<>>
    ELSE CanonicalDecomposition(Head(s)) \o Decompose(Tail(s))

RECURSIVE Reorder(_)
\* canonical ordering: marks of a run are sorted by combining class, stably
Reorder(s) ==
    LET bad == {k \in 1 .. Len(s) - 1 :
                   /\ CombiningClass(s[k + 1]) > 0
                   /\ CombiningClass(s[k]) > CombiningClass(s[k + 1])}
    IN  IF bad = {} THEN s
        ELSE LET k == CHOOSE x \in bad : \A y \in bad : x <= y
             IN  Reorder([s EXCEPT ![k] = s[k + 1], ![k + 1] = s[k]])

RECURSIVE ComposeFrom(_, _, _)
\* canonical composition of s into acc; sp is the position in acc of the
\* last starter, 0 when there is none
ComposeFrom(s, acc, sp) ==
    IF s = <<>> THEN acc
    ELSE LET c == Head(s)
             cc == CombiningClass(c)
             blocked == \E k \in sp + 1 .. Len(acc) :
                            CombiningClass(acc[k]) = 0 \/ CombiningClass(acc[k]) >= cc
             pc0 == IF sp = 0 THEN 0 ELSE PrimaryComposite(acc[sp], c)
         IN  IF sp > 0 /\ ~blocked /\ pc0 # 0
             THEN ComposeFrom(Tail(s), [acc EXCEPT ![sp] = pc0], sp)
             ELSE ComposeFrom(Tail(s), Append(acc, c),
                              IF cc = 0 THEN Len(acc) + 1 ELSE sp)

\* unicodedata.normalize("NFC", word)
NFC(s) == ComposeFrom(Reorder(Decompose(s)), <<>>, 0)

\* word.replace(old, "")
Remove(s, old) == SelectSeq(s, LAMBDA c : c # old)

normalize_word(raw) == Remove(Remove(NFC(Strip(raw)), ZWJ), ZWNJ)

\* ------------------------------------------------------------------------
\* process_file: helpers
\* ------------------------------------------------------------------------

DOT == 46

\* "-counts.txt"
COUNTS_SUFFIX == <<45, 99, 111, 117, 110, 116, 115, 46, 116, 120, 116>>

\* "-syllables.json"
JSON_SUFFIX ==
    <<45, 115, 121, 108, 108, 97, 98, 108, 101, 115, 46, 106, 115, 111, 110>>

RECURSIVE FirstField(_, _)
\* s.split(sep)[0]: s up to its first sep, all of s when it has none
FirstField(s, sep) ==
    IF s = <<>> \/ Head(s) = sep THEN <<>>
    ELSE <<Head(s)>> \o FirstField(Tail(s), sep)

\* input_basename = input_path.split('.')[0]
InputBasename(path) == FirstField(path, DOT)

\* a read loop that keeps each word once
KeepWordOnce(ws, w) ==
    IF w # <<>> /\ w \notin {ws[k] : k \in 1 .. Len(ws)} THEN Append(ws, w) ELSE ws

\* w = normalize_word(line); if w: words.append(w)
KeepWord(ws, w) == IF w # <<>> THEN Append(ws, w) ELSE ws

RECURSIVE Decimal(_)
\* str(n) of a natural number
Decimal(n) ==
    IF n < 10 THEN <<48 + n>> ELSE Append(Decimal(n \div 10), 48 + (n % 10))

\* f"{word},{count}\n"
FormatRecord(w, count) == w \o <<44>> \o Decimal(count) \o <<10>>

RECURSIVE Join(_, _)
\* sep.join(ss)
Join(sep, ss) ==
    IF ss = <<>> THEN <<>>
    ELSE IF Len(ss) = 1 THEN ss[1]
    ELSE ss[1] \o sep \o Join(sep, Tail(ss))

\* for syl in syllables: syllable_index[syl].add(syllabified_word)
\* (a defaultdict(set): a missing key starts from the empty set)
AddToIndex(index, syllables, syllabified_word) ==
    LET syls == {syllables[k] : k \in 1 .. Len(syllables)}
    IN  [syl \in DOMAIN index \cup syls |->
            (IF syl \in DOMAIN index THEN index[syl] ELSE {})
                \cup (IF syl \in syls THEN {syllabified_word} ELSE {})]

RECURSIVE StrLess(_, _)
\* a < b on str: lexicographic by code point, a proper prefix first
StrLess(a, b) ==
    IF b = <<>> THEN FALSE
    ELSE IF a = <<>> THEN TRUE
    ELSE IF Head(a) # Head(b) THEN Head(a) < Head(b)
    ELSE StrLess(Tail(a), Tail(b))

RECURSIVE Unsorted(_)
\* a list of the set in descending order
Unsorted(S) ==
    IF S = {} THEN <<>>
    ELSE LET m == CHOOSE x \in S : \A y \in S \ {x} : StrLess(y, x)
         IN  <<m>> \o Unsorted(S \ {m})

RECURSIVE Sorted(_)
\* sorted(S) of a set of str
Sorted(S) ==
    IF S = {} THEN <<>>
    ELSE LET m == CHOOSE x \in S : \A y \in S \ {x} : StrLess(x, y)
         IN  <<m>> \o Sorted(S \ {m})

\* {syl: sorted(words) for syl, words in syllable_index.items()}
SortedIndex(index) == [syl \in DOMAIN index |-> Sorted(index[syl])]

\* ------------------------------------------------------------------------
\* State
\* ------------------------------------------------------------------------

VARIABLES
    pc,                 \* position of the program
    input_path,         \* process_file: its argument
    count_output_path,  \* process_file: name of the count table
    json_output_path,   \* process_file: name of the syllable index
    f,                  \* the input file: its lines, line ends included
    line_no,            \* number of lines of f read so far
    words,              \* process_file: the normalized, non-empty words
    word_no,            \* number of words the second loop has finished
    out,                \* the count table: the strings written to it
    syllable_index,     \* process_file: akshara -> set of syllabified words
    json_file,          \* the syllable index as dumped: akshara -> sorted list
    created,            \* the output files opened for writing so far
    word,               \* split_into_aksharas: its argument
    i,                  \* split_into_aksharas: the cursor
    aksharas,           \* split_into_aksharas: the list being built
    mode,               \* parse_file_strict: its argument
    tex_file,           \* parse_file_strict: the lines of the file at filepath
    lines,              \* parse_file_strict: lines the iterator has handed out
    chapter,            \* parse_file_strict: the chapter counter
    verse,              \* parse_file_strict: the verse counter
    entries             \* parse_file_strict: the list being built

scanVars == <<word, i, aksharas>>

pathVars == <<input_path, count_output_path, json_output_path>>

readVars == <<f, line_no, words>>

writeVars == <<word_no, out, syllable_index, json_file, created>>

parseVars == <<mode, tex_file, lines, chapter, verse, entries>>

vars == <<pc, pathVars, readVars, writeVars, scanVars, parseVars>>

\* ------------------------------------------------------------------------
\* split_into_aksharas: one action per branch of the outer while loop
\* ------------------------------------------------------------------------

\* while i < n, ch in INDEPENDENT_VOWELS
ScanVowel ==
    /\ pc = "scan"
    /\ i < Len(word)
    /\ At(word, i) \in INDEPENDENT_VOWELS
    /\ LET r == VowelAkshara(word, i)
       IN  /\ aksharas' = Append(aksharas, r.ak)
           /\ i' = r.i
    /\ UNCHANGED <<pc, word, pathVars, readVars, writeVars, parseVars>>

\* while i < n, ch in CONSONANTS
ScanConsonant ==
    /\ pc = "scan"
    /\ i < Len(word)
    /\ At(word, i) \notin INDEPENDENT_VOWELS
    /\ At(word, i) \in CONSONANTS
    /\ LET r == ConsonantAkshara(word, i)
       IN  /\ aksharas' = Append(aksharas, r.ak)
           /\ i' = r.i
    /\ UNCHANGED <<pc, word, pathVars, readVars, writeVars, parseVars>>

\* while i < n, any other ch
ScanFallback ==
    /\ pc = "scan"
    /\ i < Len(word)
    /\ At(word, i) \notin INDEPENDENT_VOWELS
    /\ At(word, i) \notin CONSONANTS
    /\ LET r == FallbackAkshara(word, i)
       IN  /\ aksharas' = Append(aksharas, r.ak)
           /\ i' = r.i
    /\ UNCHANGED <<pc, word, pathVars, readVars, writeVars, parseVars>>

\* the loop condition i < n fails: return aksharas
ScanReturn ==
    /\ pc = "scan"
    /\ ~(i < Len(word))
    /\ pc' = "ret"
    /\ UNCHANGED <<pathVars, readVars, writeVars, scanVars, parseVars>>

ScanNext == ScanVowel \/ ScanConsonant \/ ScanFallback \/ ScanReturn

\* ------------------------------------------------------------------------
\* process_file
\* ------------------------------------------------------------------------

\* the output names computed and the count table opened at once, before the
\* input is read
ComputeOutputPathsAndOpen ==
    /\ pc = "paths"
    /\ count_output_path' = InputBasename(input_path) \o COUNTS_SUFFIX
    /\ json_output_path' = InputBasename(input_path) \o JSON_SUFFIX
    /\ created' = {count_output_path'}
    /\ pc' = "open"
    /\ UNCHANGED <<input_path, readVars, word_no, out, syllable_index, json_file, scanVars, parseVars>>

\* lines 106-108: the two output names
ComputeOutputPaths ==
    /\ pc = "paths"
    /\ count_output_path' = InputBasename(input_path) \o COUNTS_SUFFIX
    /\ json_output_path' = InputBasename(input_path) \o JSON_SUFFIX
    /\ pc' = "open"
    /\ UNCHANGED <<input_path, readVars, writeVars, scanVars, parseVars>>

\* line 110: open(input_path, "r") succeeds
OpenInput ==
    /\ pc = "open"
    /\ pc' = "read"
    /\ UNCHANGED <<pathVars, readVars, writeVars, scanVars, parseVars>>

\* line 110: open(input_path, "r") raises (no such file, no permission);
\* nothing catches the exception and the run ends
OpenInputFails ==
    /\ pc = "open"
    /\ pc' = "failed"
    /\ UNCHANGED <<pathVars, readVars, writeVars, scanVars, parseVars>>

\* line 111: a read of f raises (an I/O error, bytes that are not UTF-8), at
\* any point of the loop, its last read included; nothing catches the
\* exception and the run ends
ReadFails ==
    /\ pc = "read"
    /\ pc' = "failed"
    /\ UNCHANGED <<pathVars, readVars, writeVars, scanVars, parseVars>>

\* lines 111-114: one iteration of "for line in f"
ReadLine ==
    /\ pc = "read"
    /\ line_no < Len(f)
    /\ words' = KeepWord(words, normalize_word(f[line_no + 1]))
    /\ line_no' = line_no + 1
    /\ UNCHANGED <<pc, f, pathVars, writeVars, scanVars, parseVars>>

\* lines 116-118: the input is exhausted; the count table is opened
OpenCounts ==
    /\ pc = "read"
    /\ line_no = Len(f)
    /\ syllable_index' = <<>>
    /\ created' = created \cup {count_output_path}
    /\ out' = <<>>
    /\ pc' = "loop"
    /\ UNCHANGED <<word_no, json_file, pathVars, readVars, scanVars, parseVars>>

\* lines 119-120: "for word in words" takes the next word and calls
\* split_into_aksharas on it
CallSplit ==
    /\ pc = "loop"
    /\ word_no < Len(words)
    /\ word' = words[word_no + 1]
    /\ i' = 0
    /\ aksharas' = <<>>
    /\ pc' = "scan"
    /\ UNCHANGED <<pathVars, readVars, writeVars, parseVars>>

\* lines 120-131: with the syllables returned, write the count record and
\* enter the syllabified word under each of its syllables
RecordWord ==
    /\ pc = "ret"
    /\ LET syllables == aksharas
           count == Len(syllables)
           syllabified_word == Join(<<SPACE>>, syllables)
       IN  /\ out' = Append(out, FormatRecord(word, count))
           /\ syllable_index' = AddToIndex(syllable_index, syllables, syllabified_word)
    /\ word_no' = word_no + 1
    /\ pc' = "loop"
    /\ UNCHANGED <<json_file, created, pathVars, readVars, scanVars, parseVars>>

\* lines 133-140: the loop is over; sort each set and dump the index
Dump ==
    /\ pc = "loop"
    /\ word_no = Len(words)
    /\ created' = created \cup {json_output_path}
    /\ json_file' = SortedIndex(syllable_index)
    /\ pc' = "done"
    /\ UNCHANGED <<word_no, out, syllable_index, pathVars, readVars, scanVars, parseVars>>

Next ==
    \/ ComputeOutputPaths
    \/ OpenInput
    \/ OpenInputFails
    \/ ReadLine
    \/ ReadFails
    \/ OpenCounts
    \/ CallSplit
    \/ ScanNext
    \/ RecordWord
    \/ Dump

\* ------------------------------------------------------------------------
\* Spec: process_file run on a file of up to MaxLines lines
\* ------------------------------------------------------------------------

LETTER_T == 116

LETTER_W == 119

SLASH == 47

NEWLINE == 10

\* the lines a file is made of: blank, one akshara, two aksharas, a repeated
\* akshara, an inner space, outer spaces, a joiner alone, a joiner next to a
\* space, a decomposable letter
RawLines ==
    { <<NEWLINE>>,
      <<LETTER_KA, NEWLINE>>,
      <<LETTER_A, ANUSVARA, LETTER_KA, SIGN_AA, NEWLINE>>,
      <<LETTER_KA, SPACE, LETTER_KA, NEWLINE>>,
      <<SPACE, LETTER_KA, SIGN_AA, SPACE, NEWLINE>>,
      <<ZWJ, NEWLINE>>,
      <<LETTER_KA, VIRAMA, ZWNJ, LETTER_KA, SIGN_AA, NEWLINE>>,
      <<LETTER_QA, NEWLINE>> }

\* "w.t" and "./w.t"
InputPaths == {<<LETTER_W, DOT, LETTER_T>>, <<DOT, SLASH, LETTER_W, DOT, LETTER_T>>}

\* the values of the variables a part of the program does not use
NoPaths ==
    /\ input_path = <<>>
    /\ count_output_path = <<>>
    /\ json_output_path = <<>>

NoInput ==
    /\ f = <<>>
    /\ line_no = 0
    /\ words = <<>>

NoOutput ==
    /\ word_no = 0
    /\ out = <<>>
    /\ syllable_index = <<>>
    /\ json_file = <<>>
    /\ created = {}

NoScan ==
    /\ word = <<>>
    /\ i = 0
    /\ aksharas = <<>>

NoParse ==
    /\ mode = "moola"
    /\ tex_file = <<>>
    /\ lines = 0
    /\ chapter = 0
    /\ verse = 0
    /\ entries = <<>>

Init ==
    /\ pc = "paths"
    /\ input_path \in InputPaths
    /\ count_output_path = <<>>
    /\ json_output_path = <<>>
    /\ f \in StringsUpTo(RawLines, MaxLines)
    /\ line_no = 0
    /\ words = <<>>
    /\ NoOutput
    /\ NoScan
    /\ NoParse

Spec == Init /\ [][Next]_vars

\* ------------------------------------------------------------------------
\* SpecSplit: split_into_aksharas called on any word of up to MaxLen code
\* points drawn from the six character classes
\* ------------------------------------------------------------------------

SplitAlphabet == {LETTER_A, LETTER_KA, SIGN_AA, VIRAMA, ANUSVARA, SPACE}

InitSplit ==
    /\ pc = "scan"
    /\ word \in StringsUpTo(SplitAlphabet, MaxLen)
    /\ i = 0
    /\ aksharas = <<>>
    /\ NoPaths
    /\ NoInput
    /\ NoOutput
    /\ NoParse

SpecSplit == InitSplit /\ [][ScanNext]_vars

\* ------------------------------------------------------------------------
\* SpecPaths: the output names of any input path of up to MaxPathLen
\* characters
\* ------------------------------------------------------------------------

PathAlphabet == {DOT, SLASH, LETTER_W, LETTER_T}

\* the path names a file: its last component has a character that is not a
\* dot
IsFilePath(p) ==
    \E k \in 1 .. Len(p) :
        p[k] \notin {DOT, SLASH} /\ \A j \in k + 1 .. Len(p) : p[j] # SLASH

InitPaths ==
    /\ pc = "paths"
    /\ input_path \in {p \in StringsUpTo(PathAlphabet, MaxPathLen) : IsFilePath(p)}
    /\ count_output_path = <<>>
    /\ json_output_path = <<>>
    /\ NoInput
    /\ NoOutput
    /\ NoScan
    /\ NoParse

SpecPaths == InitPaths /\ [][ComputeOutputPaths]_vars

\* ------------------------------------------------------------------------
\* SpecNormalize: the read loop on a file of one line, any line of up to
\* MaxRawLen code points with or without its line end
\* ------------------------------------------------------------------------

RawAlphabet == {LETTER_NA, NUKTA, LETTER_QA, SPACE, ZWJ, ZWNJ}

InitNormalize ==
    /\ pc = "read"
    /\ \E body \in StringsUpTo(RawAlphabet, MaxRawLen) :
           \/ f = <<Append(body, NEWLINE)>>
           \/ body # <<>> /\ f = <<body>>
    /\ line_no = 0
    /\ words = <<>>
    /\ NoPaths
    /\ NoOutput
    /\ NoScan
    /\ NoParse

SpecNormalize == InitNormalize /\ [][ReadLine]_vars

\* ------------------------------------------------------------------------
\* words/generate_index.py: parse_file_strict and what it calls
\* ------------------------------------------------------------------------

BACKSLASH == 92

PERCENT == 37

BRACE_OPEN == 123

BRACE_CLOSE == 125

STAR == 42

\* [a-zA-Z]
ASCII_LETTERS == (65 .. 90) \cup (97 .. 122)

\* [|\u0965,;?!.]
PUNCTUATION == {124, 2405, 44, 59, 63, 33, 46}

\* "\chapt{"
CHAPT == <<92, 99, 104, 97, 112, 116, 123>>

\* the names of VERSE_COMMAND_PATTERN, each after its backslash
VERSE_COMMANDS ==
    { <<92, 116, 119, 111, 108, 105, 110, 101, 115, 104, 108, 111, 107, 97>>,
      <<92, 102, 111, 117, 114, 108, 105, 110, 101, 105, 110, 100, 101, 110, 116, 101, 100, 115, 104, 108, 111, 107, 97>>,
      <<92, 111, 110, 101, 108, 105, 110, 101, 115, 104, 108, 111, 107, 97>>,
      <<92, 115, 104, 108, 111, 107, 97>> }

\* "onelineshloka"
ONELINESHLOKA == <<111, 110, 101, 108, 105, 110, 101, 115, 104, 108, 111, 107, 97>>

\* "track:moola:"
TRACK_MOOLA == <<116, 114, 97, 99, 107, 58, 109, 111, 111, 108, 97, 58>>

\* s.startswith(prefix)
StartsWith(s, prefix) ==
    Len(s) >= Len(prefix) /\ SubSeq(s, 1, Len(prefix)) = prefix

\* sub in s
Contains(s, sub) ==
    \E k \in 0 .. Len(s) - Len(sub) : SubSeq(s, k + 1, k + Len(sub)) = sub

\* str(n) of an integer
Str(n) == IF n < 0 THEN <<45>> \o Decimal(0 - n) ELSE Decimal(n)

\* CHAPTER_PATTERN.match(line)
IsChapter(line) == StartsWith(line, CHAPT)

\* VERSE_COMMAND_PATTERN.search(line): the pattern is anchored at the start
IsVerseCommand(line) == \E name \in VERSE_COMMANDS : StartsWith(line, name)

\* not ('onelineshloka' in line and '*' not in line)
Counts(line) == ~(Contains(line, ONELINESHLOKA) /\ ~Contains(line, <<STAR>>))

\* text[:text.rfind('}') + 1] when text has a '}', text otherwise
UpToLastBrace(text) ==
    LET braces == {k \in 1 .. Len(text) : text[k] = BRACE_CLOSE}
    IN  IF braces = {} THEN text
        ELSE SubSeq(text, 1, CHOOSE k \in braces : \A j \in braces : j <= k)

\* if text.startswith('{'): text = text[1:]
\* if text.endswith('}'): text = text[:-1]
RemoveOuterBraces(text) ==
    LET t == IF text # <<>> /\ text[1] = BRACE_OPEN THEN Tail(text) ELSE text
    IN  IF t # <<>> /\ t[Len(t)] = BRACE_CLOSE THEN SubSeq(t, 1, Len(t) - 1) ELSE t

\* the match of \\[a-zA-Z]+\{([^}]*)\} at the start of s: its length, 0 when
\* there is none, and its group 1
MacroMatch(s) ==
    LET nonLetters == {k \in 2 .. Len(s) : s[k] \notin ASCII_LETTERS}
        open == IF nonLetters = {} THEN 0
                ELSE CHOOSE k \in nonLetters : \A j \in nonLetters : k <= j
        closes == {k \in open + 1 .. Len(s) : s[k] = BRACE_CLOSE}
        close == CHOOSE k \in closes : \A j \in closes : k <= j
    IN  IF /\ s # <<>>
           /\ s[1] = BACKSLASH
           /\ open > 2
           /\ s[open] = BRACE_OPEN
           /\ closes # {}
        THEN [len |-> close, inner |-> SubSeq(s, open + 1, close - 1)]
        ELSE [len |-> 0, inner |-> <<>>]

RECURSIVE SubMacros(_)
\* re.sub(r'\\[a-zA-Z]+\{([^}]*)\}', r'\1', text)
SubMacros(s) ==
    IF s = <<>> THEN <<>>
    ELSE LET m == MacroMatch(s)
         IN  IF m.len > 0
             THEN m.inner \o SubMacros(SubSeq(s, m.len + 1, Len(s)))
             ELSE <<Head(s)>> \o SubMacros(Tail(s))

clean_latex_text(text) ==
    IF text = <<>> THEN <<>>
    ELSE LET t1 == Strip(FirstField(text, PERCENT))
             t2 == Strip(UpToLastBrace(t1))
             t3 == RemoveOuterBraces(t2)
             t4 == SubMacros(t3)
             t5 == SelectSeq(t4, LAMBDA c : c \notin PUNCTUATION)
         IN  Strip(t5)

\* link_id = f"track:moola:{chapter}.{verse}"
LinkId(c, v) == TRACK_MOOLA \o Str(c) \o <<DOT>> \o Str(v)

\* display_num = f"{chapter}-{verse}"
DisplayNum(c, v) == Str(c) \o <<45>> \o Str(v)

\* line = line.strip() of the line the for loop is at
CurrentLine == Strip(tex_file[lines + 1])

\* lines 77-80: a chapter line
ParseChapter ==
    /\ pc = "parse"
    /\ lines < Len(tex_file)
    /\ IsChapter(CurrentLine)
    /\ chapter' = chapter + 1
    /\ verse' = 0
    /\ lines' = lines + 1
    /\ UNCHANGED <<pc, mode, tex_file, entries, pathVars, readVars, writeVars, scanVars>>

\* lines 82-92: a verse command on the last line: next(lines) raises
\* StopIteration and the loop is left
ParseVerseAtEnd ==
    /\ pc = "parse"
    /\ lines + 1 = Len(tex_file)
    /\ ~IsChapter(CurrentLine)
    /\ IsVerseCommand(CurrentLine)
    /\ verse' = IF Counts(CurrentLine) THEN verse + 1 ELSE verse
    /\ lines' = lines + 1
    /\ pc' = "parsed"
    /\ UNCHANGED <<mode, tex_file, chapter, entries, pathVars, readVars, writeVars, scanVars>>

\* lines 82-97: a verse command whose next line does not start with '{':
\* the warning, verse -= 1, continue
ParseVerseSkipped ==
    /\ pc = "parse"
    /\ lines + 1 < Len(tex_file)
    /\ ~IsChapter(CurrentLine)
    /\ IsVerseCommand(CurrentLine)
    /\ ~StartsWith(Strip(tex_file[lines + 2]), <<BRACE_OPEN>>)
    /\ verse' = (IF Counts(CurrentLine) THEN verse + 1 ELSE verse) - 1
    /\ lines' = lines + 2
    /\ UNCHANGED <<pc, mode, tex_file, chapter, entries, pathVars, readVars, writeVars, scanVars>>

\* lines 82-106: a verse command whose next line starts with '{'
ParseVerseContent ==
    /\ pc = "parse"
    /\ lines + 1 < Len(tex_file)
    /\ ~IsChapter(CurrentLine)
    /\ IsVerseCommand(CurrentLine)
    /\ StartsWith(Strip(tex_file[lines + 2]), <<BRACE_OPEN>>)
    /\ LET v == IF Counts(CurrentLine) THEN verse + 1 ELSE verse
           clean_phrase == clean_latex_text(Strip(tex_file[lines + 2]))
       IN  /\ verse' = v
           /\ entries' =
                  IF mode = "moola" /\ clean_phrase # <<>>
                  THEN Append(entries, [text |-> clean_phrase,
                                        link_id |-> LinkId(chapter, v),
                                        display_num |-> DisplayNum(chapter, v)])
                  ELSE entries
    /\ lines' = lines + 2
    /\ UNCHANGED <<pc, mode, tex_file, chapter, pathVars, readVars, writeVars, scanVars>>

\* lines 74-82: a line that is neither a chapter nor a verse command
ParseOther ==
    /\ pc = "parse"
    /\ lines < Len(tex_file)
    /\ ~IsChapter(CurrentLine)
    /\ ~IsVerseCommand(CurrentLine)
    /\ lines' = lines + 1
    /\ UNCHANGED <<pc, mode, tex_file, chapter, verse, entries, pathVars, readVars, writeVars, scanVars>>

\* lines 74, 107: the file is exhausted; return entries
ParseReturn ==
    /\ pc = "parse"
    /\ lines = Len(tex_file)
    /\ pc' = "parsed"
    /\ UNCHANGED <<parseVars, pathVars, readVars, writeVars, scanVars>>

ParseNext ==
    \/ ParseChapter
    \/ ParseVerseAtEnd
    \/ ParseVerseSkipped
    \/ ParseVerseContent
    \/ ParseOther
    \/ ParseReturn

\* ------------------------------------------------------------------------
\* SpecParse: parse_file_strict on a file of up to MaxTexLines lines
\* ------------------------------------------------------------------------

\* the lines a file is made of: a chapter, the verse commands (two-line,
\* one-line unstarred and starred), a content line, a content line with a
\* macro, punctuation and a comment, a content line that cleans to nothing,
\* a line that is no content line
TexLines ==
    { <<92, 99, 104, 97, 112, 116, 123, 97, 125, 10>>,
      <<92, 116, 119, 111, 108, 105, 110, 101, 115, 104, 108, 111, 107, 97, 10>>,
      <<92, 111, 110, 101, 108, 105, 110, 101, 115, 104, 108, 111, 107, 97, 10>>,
      <<92, 111, 110, 101, 108, 105, 110, 101, 115, 104, 108, 111, 107, 97, 42, 10>>,
      <<123, 2325, 125, 10>>,
      <<32, 123, 92, 97, 123, 2325, 125, 46, 125, 32, 37, 97, 10>>,
      <<123, 46, 125, 10>>,
      <<2325, 10>> }

InitParse ==
    /\ pc = "parse"
    /\ mode \in {"moola", "split"}
    /\ tex_file \in StringsUpTo(TexLines, MaxTexLines)
    /\ lines = 0
    /\ chapter = 0
    /\ verse = 0
    /\ entries = <<>>
    /\ NoPaths
    /\ NoInput
    /\ NoOutput
    /\ NoScan

SpecParse == InitParse /\ [][ParseNext]_vars

Range(s) == {s[k] : k \in 1 .. Len(s)}

\* the word is read to the end and its aksharas returned
Returned == pc = "ret"

\* C1: at every point of the scan the aksharas emitted so far concatenate
\* to the scanned prefix of the word, and on return to the whole word.
C1_Lossless ==
    /\ pc \in {"scan", "ret"} => Concat(aksharas) = SubSeq(word, 1, i)
    /\ pc = "ret" => Concat(aksharas) = word

\* a returned word in which all six character classes occur
C1_Witness == Returned /\ SplitAlphabet \subseteq Range(word) /\ Len(aksharas) > 1

\* the state part of C2: the cursor stays within the word, no akshara is
\* empty, the scan returns once the cursor is at the end of the word, and the
\* empty word returns the empty list
C2_State ==
    /\ i <= Len(word)
    /\ \A k \in 1 .. Len(aksharas) : aksharas[k] # <<>>
    /\ pc = "scan" /\ i = Len(word) => ENABLED ScanReturn
    /\ Returned /\ word = <<>> => aksharas = <<>>

\* the step part of C2: an outer iteration moves the cursor forward by at
\* least one code point and emits exactly one akshara
C2_Step ==
    pc = "scan" /\ pc' = "scan" =>
        /\ i' > i
        /\ i' <= Len(word)
        /\ Len(aksharas') = Len(aksharas) + 1

\* C2: split_into_aksharas is total and terminates: the cursor is bounded by
\* the length of the word and strictly increases with every outer
\* iteration, every akshara is non-empty, the empty word yields <<>>.
C2_Total == [](pc \in {"scan", "ret"} => C2_State) /\ [][C2_Step]_vars

\* a returned non-empty word made only of combining and non-Devanagari code
\* points
C2_Witness ==
    /\ Returned
    /\ Len(word) > 2
    /\ Range(word) = {SIGN_AA, VIRAMA, ANUSVARA, SPACE}
    /\ Len(aksharas) = Len(word)

\* a virama immediately followed by a vowel sign inside one akshara
ViramaThenSign(ak) ==
    \E k \in 1 .. Len(ak) - 1 : ak[k] = VIRAMA /\ ak[k + 1] \in VOWEL_SIGNS

\* C3: no akshara contains a Virama immediately followed by a Vowel Sign
\* (an akshara that absorbed a lone Virama absorbs no Vowel Sign).
C3_ViramaExcludesSign ==
    pc \in {"scan", "ret"} =>
        \A k \in 1 .. Len(aksharas) : ~ViramaThenSign(aksharas[k])

\* Consonant (Virama Consonant)^k VowelSign
IsClusterWord(w) ==
    /\ Len(w) >= 2
    /\ Len(w) % 2 = 0
    /\ w[1] \in CONSONANTS
    /\ w[Len(w)] \in VOWEL_SIGNS
    /\ \A k \in 1 .. (Len(w) \div 2) - 1 :
           w[2 * k] = VIRAMA /\ w[2 * k + 1] \in CONSONANTS

\* C4: a word Consonant (Virama Consonant)^k VowelSign is one akshara, the
\* whole word.
C4_Cluster == Returned /\ IsClusterWord(word) => aksharas = <<word>>

\* the cluster word with k = 2 has been segmented
C4_Witness == Returned /\ IsClusterWord(word) /\ Len(word) = 6

\* IndependentVowel Diacritic^k
IsVowelWord(w) ==
    /\ Len(w) >= 1
    /\ w[1] \in INDEPENDENT_VOWELS
    /\ \A k \in 2 .. Len(w) : w[k] \in DIACRITICS

\* C5: an akshara that starts with an Independent Vowel is that vowel
\* followed by Diacritics only, and by all of those that follow it: the
\* akshara after it does not start with a Diacritic; a word
\* IndependentVowel Diacritic^k is one akshara.
C5_RuleV ==
    Returned =>
        /\ \A k \in 1 .. Len(aksharas) :
               aksharas[k][1] \in INDEPENDENT_VOWELS =>
                   /\ IsVowelWord(aksharas[k])
                   /\ k < Len(aksharas) => aksharas[k + 1][1] \notin DIACRITICS
        /\ IsVowelWord(word) => aksharas = <<word>>

\* a vowel with a diacritic, then a vowel sign left outside its akshara
C5_Witness ==
    /\ Returned
    /\ Len(aksharas) > 1
    /\ aksharas[1] = <<LETTER_A, ANUSVARA>>
    /\ aksharas[2] = <<SIGN_AA>>

\* ------------------------------------------------------------------------
\* process_file: what its outputs are to be, as functions of the input file
\* ------------------------------------------------------------------------

\* the input lines that are non-empty after normalization, in input order
NonEmptyWords ==
    SelectSeq([k \in 1 .. Len(f) |-> normalize_word(f[k])], LAMBDA w : w # <<>>)

\* the syllabified form of a word: its aksharas joined by single spaces
Syllabified(w) == Join(<<SPACE>>, split_into_aksharas(w))

\* the aksharas of all corpus words
Keys == UNION {Range(split_into_aksharas(w)) : w \in Range(NonEmptyWords)}

\* the syllabified forms of the corpus words whose segmentation contains S
FormsWith(S) ==
    {Syllabified(w) :
        w \in {x \in Range(NonEmptyWords) : S \in Range(split_into_aksharas(x))}}

\* strictly ascending, hence without duplicates
IsAscending(list) ==
    \A j, k \in 1 .. Len(list) : j < k => StrLess(list[j], list[k])

\* C6: the count table holds one record per input line that is non-empty
\* after normalization, in input order, duplicates included, each the
\* normalized word with the number of its aksharas; a line that normalizes
\* to the empty string gives no record and no index key.
C6_CountTable ==
    pc = "done" =>
        /\ Len(out) = Len(NonEmptyWords)
        /\ \A k \in 1 .. Len(out) :
               out[k] = FormatRecord(NonEmptyWords[k],
                                     Len(split_into_aksharas(NonEmptyWords[k])))
        /\ \A S \in DOMAIN json_file :
               \E k \in 1 .. Len(NonEmptyWords) :
                   S \in Range(split_into_aksharas(NonEmptyWords[k]))

\* a finished run on a file with a line that normalizes to the empty string
\* and a word that occurs twice
C6_Witness ==
    /\ pc = "done"
    /\ Len(out) = 2
    /\ out[1] = out[2]
    /\ Len(f) = 3

\* C7: the keys of the syllable index are the distinct aksharas of the
\* corpus words, and the value of key S is the strictly ascending list of
\* the syllabified forms of the words whose segmentation contains S; no
\* value is empty.
C7_Index ==
    pc = "done" =>
        /\ DOMAIN json_file = Keys
        /\ \A S \in Keys :
               /\ json_file[S] # <<>>
               /\ IsAscending(json_file[S])
               /\ Range(json_file[S]) = FormsWith(S)

\* a finished run with a word repeated in the input and a key under which
\* two forms are listed
C7_Witness ==
    /\ pc = "done"
    /\ Cardinality(Range(words)) < Len(words)
    /\ \E S \in DOMAIN json_file : Len(json_file[S]) > 1

RECURSIVE SplitFrom(_, _, _)
\* s.split(sep), cur being the field collected so far
SplitFrom(s, sep, cur) ==
    IF s = <<>> THEN <<cur>>
    ELSE IF Head(s) = sep THEN <<cur>> \o SplitFrom(Tail(s), sep, <<>>)
    ELSE SplitFrom(Tail(s), sep, Append(cur, Head(s)))

\* C8: every syllabified form listed under key S, split on the space
\* character, has S among its elements.
C8_IndexConsistent ==
    pc = "done" =>
        \A S \in DOMAIN json_file :
            \A k \in 1 .. Len(json_file[S]) :
                S \in Range(SplitFrom(json_file[S][k], SPACE, <<>>))

\* C9: the Word invariant after normalization: a word kept by the read loop
\* has no ZWJ or ZWNJ and neither starts nor ends with whitespace, whatever
\* the raw line was.
C9_WordInvariant ==
    line_no = 1 =>
        /\ \A k \in 1 .. Len(words) :
               /\ ZWJ \notin Range(words[k])
               /\ ZWNJ \notin Range(words[k])
               /\ words[k][1] \notin WHITESPACE
               /\ words[k][Len(words[k])] \notin WHITESPACE

\* the last clause of C9: a line is skipped exactly when it is blank after
\* trimming
C9_SkipRule == line_no = 1 => (words = <<>> <=> Strip(f[1]) = <<>>)

\* the path without its extension: what precedes the last dot of the last
\* component, when that dot follows a character of the component that is not
\* a dot; the whole path otherwise
StripExtension(p) ==
    LET slashes == {k \in 1 .. Len(p) : p[k] = SLASH}
        start == IF slashes = {} THEN 1
                 ELSE 1 + CHOOSE k \in slashes : \A j \in slashes : j <= k
        dots == {k \in start .. Len(p) : p[k] = DOT}
        last == CHOOSE k \in dots : \A j \in dots : j <= k
    IN  IF dots # {} /\ (\E k \in start .. last - 1 : p[k] # DOT)
        THEN SubSeq(p, 1, last - 1)
        ELSE p

\* C10: the output names are the input path with only its extension
\* stripped, followed by "-counts.txt" and "-syllables.json".
C10_OutputNames ==
    pc # "paths" =>
        /\ count_output_path = StripExtension(input_path) \o COUNTS_SUFFIX
        /\ json_output_path = StripExtension(input_path) \o JSON_SUFFIX

\* the input file was opened and read to its end
InputRead == pc \in {"loop", "scan", "ret", "done"} /\ line_no = Len(f)

\* C11: no output file is created or written before the input file has been
\* opened and read to the end, and a run that failed on its input has
\* created and written nothing.
C11_NoPartialOutput ==
    /\ (created # {} \/ out # <<>> \/ json_file # <<>>) => InputRead
    /\ pc = "failed" => created = {} /\ out = <<>> /\ json_file = <<>>

\* a run that failed reading, after it had read and kept a word
C11_Witness == pc = "failed" /\ words # <<>> /\ line_no < Len(f)

\* class Other: none of the five classes of the table
IsOther(c) ==
    /\ c \notin INDEPENDENT_VOWELS
    /\ c \notin CONSONANTS
    /\ c \notin VOWEL_SIGNS
    /\ c \notin DIACRITICS
    /\ c # VIRAMA

\* an akshara that is one code point of class Other
IsOtherSingleton(ak) == Len(ak) = 1 /\ IsOther(ak[1])

\* C12: a code point of class Other is always an akshara of its own, each
\* Other code point of the word being emitted once; an akshara that does not
\* start with an Independent Vowel or a Consonant (a Vowel Sign, Virama,
\* Diacritic or Other met at the start of a scan step) is one code point
\* long, so every longer akshara starts with an Independent Vowel or a
\* Consonant.
C12_Fallback ==
    pc \in {"scan", "ret"} =>
        /\ \A k \in 1 .. Len(aksharas) :
               /\ (\E j \in 1 .. Len(aksharas[k]) : IsOther(aksharas[k][j]))
                      => Len(aksharas[k]) = 1
               /\ (aksharas[k][1] \notin INDEPENDENT_VOWELS
                       /\ aksharas[k][1] \notin CONSONANTS)
                      => Len(aksharas[k]) = 1
        /\ Returned =>
               Len(SelectSeq(aksharas, IsOtherSingleton))
                   = Len(SelectSeq(word, IsOther))

\* a returned word that starts with a vowel sign and has an Other code point
\* followed by a diacritic right after a longer akshara
C12_Witness ==
    /\ Returned
    /\ Len(aksharas) > 2
    /\ aksharas[1] = <<SIGN_AA>>
    /\ \E k \in 2 .. Len(aksharas) - 1 :
           /\ Len(aksharas[k - 1]) > 1
           /\ aksharas[k] = <<SPACE>>
           /\ aksharas[k + 1] = <<ANUSVARA>>

\* the loop is at a verse command whose next line does not start with '{'
AtMalformedVerse ==
    /\ pc = "parse"
    /\ lines + 1 < Len(tex_file)
    /\ ~IsChapter(CurrentLine)
    /\ IsVerseCommand(CurrentLine)
    /\ ~StartsWith(Strip(tex_file[lines + 2]), <<BRACE_OPEN>>)

\* C13: skipping a malformed verse adds no entry and leaves the verse
\* counter at its value before the verse command was read, whatever the verse
\* command; the verse counter is never negative.
C13_SkipKeepsNumbering ==
    /\ [][AtMalformedVerse => verse' = verse /\ entries' = entries]_vars
    /\ [](verse >= 0)

====
